---- MODULE Spec2Model ----
(***************************************************************************)
(* Model of ocr_annotation_dumper/visualizer.py: the OCRVisualizer class.  *)
(* The raster surface is modelled by its size and the sequence of cv2      *)
(* drawing calls applied to it; files are modelled by a map from path to   *)
(* content.  Optional dictionary keys are modelled as sequences of length  *)
(* 0 (key absent) or 1 (key present).  Confidences are integer hundredths. *)
(***************************************************************************)
EXTENDS Integers, Sequences, FiniteSets, TLC

\* ------------------------------------------------------------------------
\* Optional values (dict.get with a default)
\* ------------------------------------------------------------------------
None == <<>>

Some(v) == <<v>>

Get(opt, default) == IF opt = None THEN default ELSE opt[1]

RECURSIVE Concat(_)
Concat(ss) == IF ss = <<>> THEN <<>> ELSE Head(ss) \o Concat(Tail(ss))

\* ------------------------------------------------------------------------
\* Text: a string is a sequence of one-character strings
\* ------------------------------------------------------------------------
Digit(n) ==
    CASE n = 0 -> "0" [] n = 1 -> "1" [] n = 2 -> "2" [] n = 3 -> "3"
      [] n = 4 -> "4" [] n = 5 -> "5" [] n = 6 -> "6" [] n = 7 -> "7"
      [] n = 8 -> "8" [] n = 9 -> "9"

\* f"{confidence:.2f}" for a confidence given in hundredths
Format2f(c) == <<Digit(c \div 100), ".", Digit((c \div 10) % 10), Digit(c % 10)>>

ConfSuffix(c) == <<" ", "(", "c", "o", "n", "f", ":", " ">> \o Format2f(c) \o <<")">>

\* ------------------------------------------------------------------------
\* cv2.getTextSize: footprint of a text under the font in use
\* ------------------------------------------------------------------------
getTextSize(text) == [width |-> 9 * Len(text), height |-> 12, baseline |-> 5]

\* ------------------------------------------------------------------------
\* Built-in default settings
\* ------------------------------------------------------------------------
LevelSettings(d, c, t, dt) ==
    [draw |-> Some(d), color |-> Some(c), thickness |-> Some(t), draw_text |-> Some(dt),
     text_color |-> None]

GlobalSettings(dir, fmt, thr) ==
    [output_dir |-> Some(dir), output_format |-> Some(fmt), confidence_threshold |-> Some(thr),
     text_background |-> None, text_background_color |-> None]

_get_default_settings ==
    [page      |-> Some(LevelSettings(TRUE,  <<255, 0, 0>>,   3, TRUE)),
     block     |-> Some(LevelSettings(TRUE,  <<0, 255, 0>>,   2, TRUE)),
     paragraph |-> Some(LevelSettings(TRUE,  <<0, 0, 255>>,   2, FALSE)),
     word      |-> Some(LevelSettings(TRUE,  <<255, 255, 0>>, 1, TRUE)),
     character |-> Some(LevelSettings(FALSE, <<255, 0, 255>>, 1, FALSE)),
     global    |-> Some(GlobalSettings("visualizations", "png", 50))]

Levels == <<"page", "block", "paragraph", "word", "character">>

LevelRank(l) == CHOOSE i \in 1..5 : Levels[i] = l

\* self.settings.get(level, {}) : an absent level record behaves as an empty dict
EmptyLevel == [draw |-> None, color |-> None, thickness |-> None, draw_text |-> None,
               text_color |-> None]

EmptyGlobal == [output_dir |-> None, output_format |-> None, confidence_threshold |-> None,
                text_background |-> None, text_background_color |-> None]

LevelOf(st, level) == Get(st[level], EmptyLevel)

GlobalOf(st) == Get(st.global, EmptyGlobal)

\* ------------------------------------------------------------------------
\* Drawing primitives.  tag = [level, page, node] locates the node drawn.
\* ------------------------------------------------------------------------
DrawOp(kind, tag, pts, text, color, thickness) ==
    [op |-> kind, level |-> tag.level, page |-> tag.page, node |-> tag.node,
     pts |-> pts, text |-> text, color |-> color, thickness |-> thickness]

\* _extract_vertices
_extract_vertices(bounding_box) ==
    IF bounding_box.vertices = None THEN <<>>
    ELSE [i \in 1..Len(bounding_box.vertices[1]) |->
             <<Get(bounding_box.vertices[1][i].x, 0), Get(bounding_box.vertices[1][i].y, 0)>>]

\* variant of _draw_bounding_box that accepts triangles
_draw_bounding_box_min3(tag, vertices, color, thickness) ==
    IF Len(vertices) >= 3
    THEN <<DrawOp("polylines", tag, vertices, <<>>, color, thickness)>>
    ELSE <<>>

\* _draw_bounding_box: the drawing calls it adds to the surface
_draw_bounding_box(tag, vertices, color, thickness) ==
    IF Len(vertices) >= 4
    THEN <<DrawOp("polylines", tag, vertices, <<>>, color, thickness)>>
    ELSE <<>>

\* variant of the truncation that keeps 20 characters before the marker
Truncate_keep20(text) ==
    IF Len(text) > 20 THEN SubSeq(text, 1, 20) \o <<".", ".", ".">> ELSE text

\* `if len(text) > 20: text = text[:17] + "..."`
Truncate(text) == IF Len(text) > 20 THEN SubSeq(text, 1, 17) \o <<".", ".", ".">> ELSE text

ClampXLow(x) == IF x < 0 THEN 0 ELSE x

ClampYLow(y, th) == IF y < th THEN th + 5 ELSE y

ClampXHigh(x, tw, w) == IF x + tw > w THEN w - tw ELSE x

ClampYHigh(y, h) == IF y > h THEN h - 5 ELSE y

\* variant of the position adjustment that applies the upper rules before the lower ones
ClampPosition_upperFirst(position, sz, shape) ==
    <<ClampXLow(ClampXHigh(position[1], sz.width, shape.w)),
      ClampYLow(ClampYHigh(position[2], shape.h), sz.height)>>

\* "Adjust position to be inside image bounds": the four tests of _draw_text in their order
ClampPosition(position, sz, shape) ==
    <<ClampXHigh(ClampXLow(position[1]), sz.width, shape.w),
      ClampYHigh(ClampYLow(position[2], sz.height), shape.h)>>

\* _draw_text: the drawing calls it adds to the surface
_draw_text(st, shape, tag, text, position, lv) ==
    IF text = <<>> \/ ~Get(lv.draw_text, FALSE) THEN <<>>
    ELSE LET color == Get(lv.text_color, Get(lv.color, <<255, 255, 255>>))
             t     == Truncate(text)
             sz    == getTextSize(t)
             x     == ClampPosition(position, sz, shape)[1]
             y     == ClampPosition(position, sz, shape)[2]
             bg    == IF Get(GlobalOf(st).text_background, TRUE)
                      THEN <<DrawOp("rectangle", tag,
                                    <<(<<x - 2, y - sz.height - 2>>),
                                      (<<x + sz.width + 2, y + sz.baseline + 2>>)>>,
                                    <<>>, Get(GlobalOf(st).text_background_color, <<255, 255, 255>>), -1)>>
                      ELSE <<>>
         IN  bg \o <<DrawOp("putText", tag, <<(<<x, y>>)>>, t, color, 1)>>

\* ------------------------------------------------------------------------
\* Per-level processing: the drawing calls each _process_*_level adds
\* ------------------------------------------------------------------------
Tag(level, node) == [level |-> level, page |-> node[1], node |-> node]

Str_Page == <<"P", "a", "g", "e">>

Str_Para == <<"P", "a", "r", "a">>

Str_UNKNOWN == <<"U", "N", "K", "N", "O", "W", "N">>

\* confidence_threshold lookup shared by the word and character levels
ConfidenceThreshold(st) == Get(GlobalOf(st).confidence_threshold, 50)

\* variant of the threshold test that also filters a confidence equal to the threshold
BelowThreshold_inclusive(confidence, confidence_threshold) == confidence <= confidence_threshold

\* the `confidence < confidence_threshold: continue` test
BelowThreshold(confidence, confidence_threshold) == confidence < confidence_threshold

\* block.get('paragraphs', []) and its siblings
Children(opt) == Get(opt, <<>>)

_process_page_level(st, shape, pg, page_data) ==
    LET lv  == LevelOf(st, "page")
        tag == Tag("page", <<pg>>)
        vertices == <<(<<0, 0>>), (<<shape.w, 0>>), (<<shape.w, shape.h>>), (<<0, shape.h>>)>>
    IN  IF ~Get(lv.draw, FALSE) THEN <<>>
        ELSE _draw_bounding_box(tag, vertices, Get(lv.color, <<255, 0, 0>>), Get(lv.thickness, 3))
             \o (IF Get(lv.draw_text, FALSE)
                 THEN _draw_text(st, shape, tag,
                                 Str_Page \o ConfSuffix(Get(page_data.confidence, 0)),
                                 <<10, 30>>, lv)
                 ELSE <<>>)

\* body of the loop over blocks in _process_block_level
BlockStep(st, shape, lv, node, block) ==
    IF block.boundingBox = None THEN <<>>
    ELSE LET vertices == _extract_vertices(block.boundingBox[1])
             tag == Tag("block", node)
         IN  IF vertices = <<>> THEN <<>>
             ELSE _draw_bounding_box(tag, vertices, Get(lv.color, <<0, 255, 0>>), Get(lv.thickness, 2))
                  \o (IF Get(lv.draw_text, FALSE)
                      THEN _draw_text(st, shape, tag,
                                      Get(block.blockType, Str_UNKNOWN)
                                        \o ConfSuffix(Get(block.confidence, 0)),
                                      vertices[1], lv)
                      ELSE <<>>)

_process_block_level(st, shape, pg, blocks) ==
    LET lv == LevelOf(st, "block")
    IN  IF ~Get(lv.draw, FALSE) THEN <<>>
        ELSE Concat([b \in 1..Len(blocks) |-> BlockStep(st, shape, lv, <<pg, b>>, blocks[b])])

\* variant of the paragraph loop body that applies the confidence threshold
ParagraphStep_filtered(st, shape, lv, node, paragraph) ==
    IF paragraph.boundingBox = None THEN <<>>
    ELSE IF Get(paragraph.confidence, 0) < ConfidenceThreshold(st) THEN <<>>
    ELSE LET vertices == _extract_vertices(paragraph.boundingBox[1])
             tag == Tag("paragraph", node)
         IN  IF vertices = <<>> THEN <<>>
             ELSE _draw_bounding_box(tag, vertices, Get(lv.color, <<0, 0, 255>>), Get(lv.thickness, 2))
                  \o (IF Get(lv.draw_text, FALSE)
                      THEN _draw_text(st, shape, tag,
                                      Str_Para \o ConfSuffix(Get(paragraph.confidence, 0)),
                                      vertices[1], lv)
                      ELSE <<>>)

\* body of the innermost loop in _process_paragraph_level
ParagraphStep(st, shape, lv, node, paragraph) ==
    IF paragraph.boundingBox = None THEN <<>>
    ELSE LET vertices == _extract_vertices(paragraph.boundingBox[1])
             tag == Tag("paragraph", node)
         IN  IF vertices = <<>> THEN <<>>
             ELSE _draw_bounding_box(tag, vertices, Get(lv.color, <<0, 0, 255>>), Get(lv.thickness, 2))
                  \o (IF Get(lv.draw_text, FALSE)
                      THEN _draw_text(st, shape, tag,
                                      Str_Para \o ConfSuffix(Get(paragraph.confidence, 0)),
                                      vertices[1], lv)
                      ELSE <<>>)

\* variant of _process_paragraph_level that descends only into blocks with a drawable polygon
_process_paragraph_level_nested(st, shape, pg, blocks) ==
    LET lv == LevelOf(st, "paragraph")
    IN  IF ~Get(lv.draw, FALSE) THEN <<>>
        ELSE Concat([b \in 1..Len(blocks) |->
               LET paragraphs == IF blocks[b].boundingBox = None
                                    \/ Len(_extract_vertices(blocks[b].boundingBox[1])) < 4
                                 THEN <<>>
                                 ELSE Children(blocks[b].paragraphs)
               IN  Concat([p \in 1..Len(paragraphs) |->
                     ParagraphStep(st, shape, lv, <<pg, b, p>>, paragraphs[p])])])

_process_paragraph_level(st, shape, pg, blocks) ==
    LET lv == LevelOf(st, "paragraph")
    IN  IF ~Get(lv.draw, FALSE) THEN <<>>
        ELSE Concat([b \in 1..Len(blocks) |->
               LET paragraphs == Children(blocks[b].paragraphs)
               IN  Concat([p \in 1..Len(paragraphs) |->
                     ParagraphStep(st, shape, lv, <<pg, b, p>>, paragraphs[p])])])

\* variant of _extract_word_text that leaves out the characters a threshold of 0.5 filters
_extract_word_text_confident(word) ==
    LET symbols == SelectSeq(Children(word.symbols), LAMBDA c : Get(c.confidence, 0) >= 50)
    IN  Concat([s \in 1..Len(symbols) |-> Get(symbols[s].text, <<>>)])

\* _extract_word_text
_extract_word_text(word) ==
    LET symbols == Children(word.symbols)
    IN  Concat([s \in 1..Len(symbols) |-> Get(symbols[s].text, <<>>)])

\* body of the innermost loop in _process_word_level
WordStep(st, shape, lv, node, word) ==
    IF word.boundingBox = None THEN <<>>
    ELSE IF BelowThreshold(Get(word.confidence, 0), ConfidenceThreshold(st)) THEN <<>>
    ELSE LET vertices == _extract_vertices(word.boundingBox[1])
             tag == Tag("word", node)
         IN  IF vertices = <<>> THEN <<>>
             ELSE _draw_bounding_box(tag, vertices, Get(lv.color, <<255, 255, 0>>), Get(lv.thickness, 1))
                  \o (IF Get(lv.draw_text, FALSE)
                      THEN LET word_text == _extract_word_text(word)
                           IN  IF word_text # <<>>
                               THEN _draw_text(st, shape, tag, word_text, vertices[1], lv)
                               ELSE <<>>
                      ELSE <<>>)

\* variant of _process_word_level that is also switched off by block.draw
_process_word_level_gated(st, shape, pg, blocks) ==
    LET lv == LevelOf(st, "word")
    IN  IF ~Get(lv.draw, FALSE) \/ ~Get(LevelOf(st, "block").draw, FALSE) THEN <<>>
        ELSE Concat([b \in 1..Len(blocks) |->
               LET paragraphs == Children(blocks[b].paragraphs)
               IN  Concat([p \in 1..Len(paragraphs) |->
                     LET words == Children(paragraphs[p].words)
                     IN  Concat([w \in 1..Len(words) |->
                           WordStep(st, shape, lv, <<pg, b, p, w>>, words[w])])])])

_process_word_level(st, shape, pg, blocks) ==
    LET lv == LevelOf(st, "word")
    IN  IF ~Get(lv.draw, FALSE) THEN <<>>
        ELSE Concat([b \in 1..Len(blocks) |->
               LET paragraphs == Children(blocks[b].paragraphs)
               IN  Concat([p \in 1..Len(paragraphs) |->
                     LET words == Children(paragraphs[p].words)
                     IN  Concat([w \in 1..Len(words) |->
                           WordStep(st, shape, lv, <<pg, b, p, w>>, words[w])])])])

\* body of the innermost loop in _process_character_level
CharacterStep(st, shape, lv, node, symbol) ==
    IF symbol.boundingBox = None THEN <<>>
    ELSE IF BelowThreshold(Get(symbol.confidence, 0), ConfidenceThreshold(st)) THEN <<>>
    ELSE LET vertices == _extract_vertices(symbol.boundingBox[1])
             tag == Tag("character", node)
         IN  IF vertices = <<>> THEN <<>>
             ELSE _draw_bounding_box(tag, vertices, Get(lv.color, <<255, 0, 255>>), Get(lv.thickness, 1))
                  \o (IF Get(lv.draw_text, FALSE)
                      THEN LET char_text == Get(symbol.text, <<>>)
                           IN  IF char_text # <<>>
                               THEN _draw_text(st, shape, tag, char_text, vertices[1], lv)
                               ELSE <<>>
                      ELSE <<>>)

\* variant of _process_character_level that visits only the characters of words that pass
\* the word level's own tests
_process_character_level_underWords(st, shape, pg, blocks) ==
    LET lv == LevelOf(st, "character")
    IN  IF ~Get(lv.draw, FALSE) THEN <<>>
        ELSE Concat([b \in 1..Len(blocks) |->
               LET paragraphs == Children(blocks[b].paragraphs)
               IN  Concat([p \in 1..Len(paragraphs) |->
                     LET words == Children(paragraphs[p].words)
                     IN  Concat([w \in 1..Len(words) |->
                           LET symbols == IF words[w].boundingBox = None
                                             \/ BelowThreshold(Get(words[w].confidence, 0),
                                                               ConfidenceThreshold(st))
                                          THEN <<>>
                                          ELSE Children(words[w].symbols)
                           IN  Concat([s \in 1..Len(symbols) |->
                                 CharacterStep(st, shape, lv, <<pg, b, p, w, s>>, symbols[s])])])])])

_process_character_level(st, shape, pg, blocks) ==
    LET lv == LevelOf(st, "character")
    IN  IF ~Get(lv.draw, FALSE) THEN <<>>
        ELSE Concat([b \in 1..Len(blocks) |->
               LET paragraphs == Children(blocks[b].paragraphs)
               IN  Concat([p \in 1..Len(paragraphs) |->
                     LET words == Children(paragraphs[p].words)
                     IN  Concat([w \in 1..Len(words) |->
                           LET symbols == Children(words[w].symbols)
                           IN  Concat([s \in 1..Len(symbols) |->
                                 CharacterStep(st, shape, lv, <<pg, b, p, w, s>>, symbols[s])])])])])

\* ------------------------------------------------------------------------
\* Paths and files
\* ------------------------------------------------------------------------
Path(dir, stem, ext) == [dir |-> dir, stem |-> stem, ext |-> ext]

image_extensions == {"png", "jpg", "jpeg", "gif", "bmp", "webp", "tiff", "tif"}

\* labels_dir / f"{image_path.stem}.json"
LabelPath(labels_dir, image) == Path(labels_dir, image.stem, "json")

\* output_dir / f"{image_path.stem}_visualized.{output_format}"
VisualizedPath(output_dir, image, output_format) ==
    Path(output_dir, image.stem \o <<"_visualized">>, output_format)

ImageFile(shape) == [kind |-> "image", ok |-> TRUE, shape |-> shape, ops |-> <<>>, doc |-> None]

CorruptImageFile == [kind |-> "image", ok |-> FALSE, shape |-> [w |-> 0, h |-> 0], ops |-> <<>>, doc |-> None]

JsonFile(doc) == [kind |-> "json", ok |-> TRUE, shape |-> [w |-> 0, h |-> 0], ops |-> <<>>, doc |-> Some(doc)]

CorruptJsonFile == [kind |-> "json", ok |-> FALSE, shape |-> [w |-> 0, h |-> 0], ops |-> <<>>, doc |-> None]

\* cv2.imread: None for a missing or undecodable file, else the decoded surface:
\* base is the raster read from the file, ops the drawing calls made on it since
imread(files, path) ==
    IF path \in DOMAIN files /\ files[path].kind = "image" /\ files[path].ok
    THEN Some([shape |-> files[path].shape, base |-> files[path].ops, ops |-> <<>>])
    ELSE None

\* open(...) + json.load: None stands for the exception either of them raises
json_load(files, path) ==
    IF path \in DOMAIN files /\ files[path].kind = "json" /\ files[path].ok
    THEN files[path].doc
    ELSE None

\* the file cv2.imwrite leaves at a path
Written(surface) ==
    [kind |-> "image", ok |-> TRUE, shape |-> surface.shape, ops |-> surface.base \o surface.ops,
     doc |-> None]

\* annotations.get('response', {}).get('fullTextAnnotation', {})
EmptyFTA == [text |-> None, pages |-> None]

FullTextAnnotation(annotations) ==
    Get(Get(annotations.response, [fullTextAnnotation |-> None]).fullTextAnnotation, EmptyFTA)

\* variant of the early returns that lacks the `not pages` test
NothingToDraw_ftaOnly(annotations) == FullTextAnnotation(annotations) = EmptyFTA

\* `not full_text_annotation` / `not pages`: the two early returns of visualize_annotations
NothingToDraw(annotations) ==
    \/ FullTextAnnotation(annotations) = EmptyFTA
    \/ Get(FullTextAnnotation(annotations).pages, <<>>) = <<>>

\* variant of visualize_annotations without the except clause
ExceptClause_propagating(exception, image) == [propagate |-> TRUE, value |-> image]

\* the `except Exception` clause of visualize_annotations: the exception is
\* swallowed and the input path is returned
ExceptClause(exception, image) == [propagate |-> FALSE, value |-> image]

\* variant of the page loop that processes words before paragraphs
NextLevel_swapped(level) ==
    CASE level = "page" -> "block"
      [] level = "block" -> "word"
      [] level = "word" -> "paragraph"
      [] level = "paragraph" -> "character"
      [] level = "character" -> "page"

\* the order of the five _process_*_level calls inside the page loop
NextLevel(level) ==
    CASE level = "page" -> "block"
      [] level = "block" -> "paragraph"
      [] level = "paragraph" -> "word"
      [] level = "word" -> "character"
      [] level = "character" -> "page"

\* ------------------------------------------------------------------------
\* Inputs: annotation trees
\* ------------------------------------------------------------------------
\* nodes whose path is all ones have Fanout children, every other node has one
Fanout == 2

\* number of top-level calls made on one visualizer
MaxCalls == 2

OnSpine(path) == \A i \in 1..Len(path) : path[i] = 1

Kids(path) == IF OnSpine(path) THEN Fanout ELSE 1

Vertex(x, y) == [x |-> Some(x), y |-> Some(y)]

Rect(x, y, w, h) == <<Vertex(x, y), Vertex(x + w, y), Vertex(x + w, y + h), Vertex(x, y + h)>>

DefaultVertices(path) ==
    Rect(10 * Len(path) + 100 * (path[2] - 1), 40 + 20 * Len(path) + 50 * (path[Len(path)] - 1), 60, 15)

DefaultBox(path) == Some([vertices |-> Some(DefaultVertices(path))])

\* a tree is the default tree with the box and confidence of one node replaced
NoSpecial == [path |-> <<>>, box |-> None, confidence |-> None]

BoxOf(path, sp) == IF sp.path = path THEN sp.box ELSE DefaultBox(path)

ConfOf(path, sp) == IF sp.path = path THEN sp.confidence ELSE Some(90)

Letter(i) == CASE i = 1 -> "a" [] i = 2 -> "b" [] i = 3 -> "c" [] OTHER -> "d"

MkSymbol(path, sp) ==
    [boundingBox |-> BoxOf(path, sp), confidence |-> ConfOf(path, sp),
     text |-> Some(<<Letter(path[5])>>)]

MkWord(path, sp) ==
    [boundingBox |-> BoxOf(path, sp), confidence |-> ConfOf(path, sp),
     symbols |-> Some([s \in 1..Kids(path) |-> MkSymbol(path \o <<s>>, sp)])]

MkParagraph(path, sp) ==
    [boundingBox |-> BoxOf(path, sp), confidence |-> ConfOf(path, sp),
     words |-> Some([w \in 1..Kids(path) |-> MkWord(path \o <<w>>, sp)])]

MkBlock(path, sp) ==
    [boundingBox |-> BoxOf(path, sp), confidence |-> ConfOf(path, sp),
     blockType |-> IF path[2] = 1 THEN Some(<<"T", "E", "X", "T">>) ELSE None,
     paragraphs |-> Some([p \in 1..Kids(path) |-> MkParagraph(path \o <<p>>, sp)])]

MkPage(path, sp) ==
    [confidence |-> ConfOf(path, sp),
     blocks |-> Some([b \in 1..Kids(path) |-> MkBlock(path \o <<b>>, sp)])]

MkPages(sp) == [pg \in 1..Fanout |-> MkPage(<<pg>>, sp)]

MkAnnotations(fta) == [response |-> Some([fullTextAnnotation |-> fta])]

TreeDoc(sp) == MkAnnotations(Some([text |-> Some(<<"a", "b">>), pages |-> Some(MkPages(sp))]))

\* a document with a single page
OnePageDoc == MkAnnotations(Some([text |-> Some(<<"a", "b">>), pages |-> Some(<<MkPage(<<1>>, NoSpecial)>>)]))

\* all node paths of the tree, by depth (1 = page ... 5 = symbol)
RECURSIVE PathsAt(_)
PathsAt(depth) ==
    IF depth = 0 THEN {<<>>}
    ELSE UNION {{path \o <<k>> : k \in 1..Kids(path)} : path \in PathsAt(depth - 1)}

NodePaths == UNION {PathsAt(d) : d \in 1..5}

ConfVariants == {None, Some(30), Some(50), Some(90)}

BoxVariants(path) ==
    {None, Some([vertices |-> None]), DefaultBox(path)}
    \cup {Some([vertices |-> Some(SubSeq(DefaultVertices(path), 1, n))]) : n \in {1, 3}}

\* the nodes that are varied: the first two of each level
SpecialPaths == {path \in NodePaths : OnSpine(SubSeq(path, 1, Len(path) - 1)) /\ path[Len(path)] <= 2}

Specials ==
    {NoSpecial}
    \cup {[path |-> path, box |-> None, confidence |-> c] :
             path \in SpecialPaths \cap PathsAt(1), c \in ConfVariants}
    \cup UNION {{[path |-> path, box |-> b, confidence |-> c] :
                   b \in BoxVariants(path), c \in ConfVariants} : path \in SpecialPaths \ PathsAt(1)}

\* label documents without annotation content
EmptyDocs ==
    {[response |-> None],
     MkAnnotations(None),
     MkAnnotations(Some(EmptyFTA)),
     MkAnnotations(Some([text |-> Some(<<"a">>), pages |-> None])),
     MkAnnotations(Some([text |-> Some(<<"a">>), pages |-> Some(<<>>)]))}

\* ------------------------------------------------------------------------
\* Inputs: settings documents
\* ------------------------------------------------------------------------
WithDraw(st, level, d) == [st EXCEPT ![level] = Some([@[1] EXCEPT !.draw = Some(d)])]

WithDrawText(st, level, d) == [st EXCEPT ![level] = Some([@[1] EXCEPT !.draw_text = Some(d)])]

WithThreshold(st, thr) == [st EXCEPT !.global = Some([@[1] EXCEPT !.confidence_threshold = thr])]

AllOn == WithDraw(_get_default_settings, "character", TRUE)

AllText(st) ==
    WithDrawText(WithDrawText(WithDrawText(st, "paragraph", TRUE), "character", TRUE), "page", TRUE)

DrawDocs == {AllOn} \cup {WithDraw(AllOn, Levels[i], FALSE) : i \in 1..5}

SettingsDocs ==
    DrawDocs \cup {AllText(AllOn)}
    \cup {WithThreshold(AllText(AllOn), thr) : thr \in {None, Some(0), Some(100)}}

\* the settings file: missing, not parseable as YAML, or holding a document
MissingSettingsFile == [kind |-> "missing", doc |-> None]

UnparseableSettingsFile == [kind |-> "unparseable", doc |-> None]

YamlFile(doc) == [kind |-> "yaml", doc |-> Some(doc)]

\* open(...) + yaml.safe_load: None stands for the exception either of them raises
yaml_safe_load(file) == IF file.kind = "yaml" THEN file.doc ELSE None

\* a settings document without any key
EmptySettings ==
    [page |-> None, block |-> None, paragraph |-> None, word |-> None, character |-> None,
     global |-> None]

\* variant of _load_settings that falls back to an empty document
_load_settings_empty(file) ==
    IF yaml_safe_load(file) = None THEN EmptySettings ELSE yaml_safe_load(file)[1]

\* _load_settings: the document of the file, the built-in defaults when loading fails
_load_settings(file) ==
    IF yaml_safe_load(file) = None THEN _get_default_settings ELSE yaml_safe_load(file)[1]

\* ------------------------------------------------------------------------
\* Inputs: directory contents
\* ------------------------------------------------------------------------
Shape640 == [w |-> 640, h |-> 480]

Img(stem, ext) == Path("images", <<stem>>, ext)

Lbl(stem) == Path("labels", <<stem>>, "json")

DefaultOut(stem) == Path("visualizations", <<stem, "_visualized">>, "png")

ExplicitOut == Path("out", <<"result">>, "png")

\* a possibly absent file: f is None or Some(content)
File(path, f) == IF f = None THEN <<>> ELSE <<(path :> f[1])>>

RECURSIVE Merge(_)
Merge(fns) == IF fns = <<>> THEN <<>> ELSE IF Len(fns) = 1 THEN fns[1] ELSE fns[1] @@ Merge(Tail(fns))

Dir(entries) == Merge(Concat(entries))

\* one image with its label; the tree and the settings vary
TreeScenarios ==
    {[settings_file |-> YamlFile(doc),
      fs |-> Dir(<<File(Img("a", "png"), Some(ImageFile(Shape640))),
                   File(Lbl("a"), Some(JsonFile(TreeDoc(sp))))>>),
      unwritable |-> {},
      outs |-> {None},
      budget |-> 1] : doc \in SettingsDocs, sp \in Specials}

\* a settings document that sets every key to a value other than the built-in one
CustomSettings ==
    [page      |-> Some(LevelSettings(TRUE, <<10, 20, 30>>, 5, TRUE)),
     block     |-> Some(LevelSettings(TRUE, <<40, 50, 60>>, 4, TRUE)),
     paragraph |-> Some(LevelSettings(TRUE, <<70, 80, 90>>, 4, TRUE)),
     word      |-> Some(LevelSettings(TRUE, <<15, 25, 35>>, 3, TRUE)),
     character |-> Some(LevelSettings(TRUE, <<45, 55, 65>>, 3, TRUE)),
     global    |-> Some(GlobalSettings("renders", "jpg", 95))]

\* the document without one key of one record, without one record
Omit(st, record, key) == [st EXCEPT ![record] = Some([@[1] EXCEPT ![key] = None])]

OmitRecord(st, record) == [st EXCEPT ![record] = None]

PartialDocs ==
    {CustomSettings, EmptySettings}
    \cup {OmitRecord(CustomSettings, r) :
             r \in {"page", "block", "paragraph", "word", "character", "global"}}
    \cup {Omit(CustomSettings, Levels[i], k) :
             i \in 1..5, k \in {"draw", "color", "thickness", "draw_text"}}
    \cup {Omit(CustomSettings, "global", k) :
             k \in {"output_dir", "output_format", "confidence_threshold"}}

\* one image with its label; the settings document omits keys
PartialSettingsScenarios ==
    {[settings_file |-> YamlFile(doc),
      fs |-> Dir(<<File(Img("a", "png"), Some(ImageFile(Shape640))),
                   File(Lbl("a"), Some(JsonFile(OnePageDoc)))>>),
      unwritable |-> {},
      outs |-> {None},
      budget |-> 1] : doc \in PartialDocs}

\* one image; the image, the label and the output location vary
SingleFileScenarios ==
    {[settings_file |-> sf,
      fs |-> Dir(<<File(Img("a", "png"), Some(image)), File(Lbl("a"), Some(label))>>),
      unwritable |-> bad,
      outs |-> {None, Some(ExplicitOut)},
      budget |-> 1] :
        sf \in {MissingSettingsFile, UnparseableSettingsFile},
        image \in {ImageFile(Shape640), CorruptImageFile},
        label \in {CorruptJsonFile, JsonFile(TreeDoc(NoSpecial))} \cup {JsonFile(d) : d \in EmptyDocs},
        bad \in SUBSET {DefaultOut("a"), ExplicitOut}}

\* a folder of images: readable or not, labelled or not, sharing a stem or not
StemB ==
    {<<>>,
     <<File(Img("b", "png"), Some(ImageFile(Shape640))), File(Lbl("b"), Some(JsonFile(OnePageDoc)))>>,
     <<File(Img("b", "png"), Some(CorruptImageFile)), File(Lbl("b"), Some(JsonFile(OnePageDoc)))>>,
     <<File(Img("b", "png"), Some(ImageFile(Shape640))), File(Lbl("b"), Some(CorruptJsonFile))>>}

FolderScenarios ==
    {[settings_file |-> MissingSettingsFile,
      fs |-> Dir(<<File(Img("a", "png"), Some(image)), File(Lbl("a"), Some(label)),
                   File(Img("a", "jpg"), jpg), File(Img("c", "png"), c), File(Img("c", "txt"), c)>>
                 \o b),
      unwritable |-> bad,
      outs |-> {None},
      budget |-> 1] :
        image \in {ImageFile(Shape640), CorruptImageFile},
        label \in {CorruptJsonFile, JsonFile(OnePageDoc), JsonFile(MkAnnotations(None))},
        jpg \in {None, Some(ImageFile(Shape640))},
        c \in {None, Some(ImageFile(Shape640))},
        b \in StemB,
        bad \in SUBSET {DefaultOut("a"), DefaultOut("b")}}

\* repeated calls on one visualizer
RepeatScenarios ==
    {[settings_file |-> sf,
      fs |-> Dir(<<File(Img("a", "png"), Some(ImageFile(Shape640))),
                   File(Lbl("a"), Some(JsonFile(TreeDoc(NoSpecial))))>>),
      unwritable |-> {},
      outs |-> {None, Some(ExplicitOut)},
      budget |-> MaxCalls] : sf \in {MissingSettingsFile, UnparseableSettingsFile}}

\* a small surface, a text of n characters
Shape100 == [w |-> 100, h |-> 100]

Chars(n) == [i \in 1..n |-> Digit(i % 10)]

Str_HANDWRITTEN == <<"H", "A", "N", "D", "W", "R", "I", "T", "T", "E", "N">>

BoxAt(anchor) == Some([vertices |-> Some(Rect(anchor[1], anchor[2], 60, 15))])

Sym(text, confidence) == [text |-> text, confidence |-> confidence]

\* one block, one paragraph and one word, all placed at the anchor; the word has the symbols given
LabelDoc(anchor, syms) ==
    LET symbol(k) == [boundingBox |-> BoxAt(anchor), confidence |-> syms[k].confidence,
                      text |-> syms[k].text]
        word      == [boundingBox |-> BoxAt(anchor), confidence |-> Some(90),
                      symbols |-> Some([k \in 1..Len(syms) |-> symbol(k)])]
        paragraph == [boundingBox |-> BoxAt(anchor), confidence |-> Some(90),
                      words |-> Some(<<word>>)]
        block     == [boundingBox |-> BoxAt(anchor), confidence |-> Some(90),
                      blockType |-> Some(Str_HANDWRITTEN), paragraphs |-> Some(<<paragraph>>)]
        page      == [confidence |-> Some(90), blocks |-> Some(<<block>>)]
    IN  MkAnnotations(Some([text |-> None, pages |-> Some(<<page>>)]))

Anchors == {<<-5, 2>>, <<50, 5>>, <<100, 100>>, <<630, 475>>, <<-5, 500>>, <<300, 490>>}

SymbolTexts ==
    {<<>>,
     <<Sym(None, Some(90)), Sym(Some(<<>>), Some(90))>>,
     <<Sym(Some(Chars(10)), Some(90)), Sym(None, Some(90)), Sym(Some(Chars(9)), Some(30))>>,
     <<Sym(Some(Chars(10)), Some(30)), Sym(Some(Chars(10)), None)>>,
     <<Sym(Some(Chars(10)), Some(90)), Sym(Some(Chars(11)), Some(90))>>,
     <<Sym(Some(Chars(25)), Some(90))>>}

\* one image with its label; the surface size, the anchor and the texts vary
LabelScenarios ==
    {[settings_file |-> YamlFile(AllText(AllOn)),
      fs |-> Dir(<<File(Img("a", "png"), Some(ImageFile(shape))),
                   File(Lbl("a"), Some(JsonFile(LabelDoc(anchor, syms))))>>),
      unwritable |-> {},
      outs |-> {None},
      budget |-> 1] : shape \in {Shape640, Shape100}, anchor \in Anchors, syms \in SymbolTexts}

\* a settings document whose thickness for one level is one cv2.polylines rejects
WithThickness(st, level, t) == [st EXCEPT ![level] = Some([@[1] EXCEPT !.thickness = Some(t)])]

\* a document with one page that has no blocks
BarePageDoc ==
    MkAnnotations(Some([text |-> None, pages |-> Some(<<[confidence |-> Some(90), blocks |-> None]>>)]))

\* two images with their labels; drawing one level raises
DrawErrorScenarios ==
    {[settings_file |-> YamlFile(WithThickness(AllOn, Levels[l], -1)),
      fs |-> Dir(<<File(Img("a", "png"), Some(ImageFile(Shape640))),
                   File(Lbl("a"), Some(JsonFile(OnePageDoc))),
                   File(Img("b", "png"), Some(ImageFile(Shape640))),
                   File(Lbl("b"), Some(JsonFile(BarePageDoc)))>>),
      unwritable |-> {},
      outs |-> {None},
      budget |-> 1] : l \in 1..5}

\* the output location lies among the input images
AliasScenarios ==
    {[settings_file |-> MissingSettingsFile,
      fs |-> Dir(<<File(Img("a", "png"), Some(ImageFile(Shape640))),
                   File(Lbl("a"), Some(JsonFile(OnePageDoc))),
                   File(VisualizedPath("images", Img("a", "png"), "png"), Some(ImageFile(Shape640))),
                   File(LabelPath("labels", VisualizedPath("images", Img("a", "png"), "png")),
                        Some(JsonFile(OnePageDoc)))>>),
      unwritable |-> {},
      outs |-> {Some(Img("a", "png"))},
      budget |-> MaxCalls]}

Scenarios ==
    TreeScenarios \cup SingleFileScenarios \cup FolderScenarios \cup RepeatScenarios
    \cup PartialSettingsScenarios \cup AliasScenarios \cup LabelScenarios
    \cup DrawErrorScenarios

\* ------------------------------------------------------------------------
\* State
\* ------------------------------------------------------------------------
VARIABLES
    settings_file,     \* the file at self.settings_path when the visualizer is constructed
    settings,          \* self.settings
    fs0,               \* the files before the first call
    fs,                \* files: path -> content
    unwritable,        \* paths at which cv2.imwrite fails
    outs,              \* the output arguments callers pass (None: not given)
    budget,            \* top-level calls still to be made
    pc,                \* position inside visualize_annotations
    caller,            \* "single" or "folder"
    image_path, annotations_path, output_path,
    img,               \* the surface: None or Some([shape, base, ops])
    pages, pg,         \* the pages list and the index of the page in the loop
    ret,               \* value returned by visualize_annotations
    exc,               \* exception raised inside the try block ("" if none)
    raised,            \* exception leaving visualize_annotations ("" if none)
    wfail,             \* the imwrite of this call failed
    written,           \* files written during the current top-level call
    renders,           \* the renders completed so far: the inputs read and the surface drawn
    fpc,               \* position inside visualize_folder
    output_dir, image_files, fidx, visualized_paths

vars == <<settings_file, settings, fs0, fs, unwritable, outs, budget, pc, caller, image_path, annotations_path,
          output_path, img, pages, pg, ret, exc, raised, wfail, written, renders,
          fpc, output_dir, image_files, fidx, visualized_paths>>

envVars == <<settings_file, settings, fs0, unwritable, outs>>

argVars == <<caller, image_path, annotations_path, output_path>>

folderVars == <<fpc, output_dir, image_files, fidx, visualized_paths>>

NoPath == Path("", <<>>, "")

Init ==
    \E sc \in Scenarios :
        /\ settings_file = sc.settings_file
        /\ settings = _load_settings(sc.settings_file)
        /\ fs0 = sc.fs /\ fs = sc.fs
        /\ unwritable = sc.unwritable
        /\ outs = sc.outs
        /\ budget = sc.budget
        /\ pc = "idle" /\ caller = "single"
        /\ image_path = NoPath /\ annotations_path = NoPath /\ output_path = None
        /\ img = None /\ pages = <<>> /\ pg = 0
        /\ ret = None /\ exc = "" /\ raised = "" /\ wfail = FALSE
        /\ written = <<>> /\ renders = {}
        /\ fpc = "idle" /\ output_dir = "" /\ image_files = <<>> /\ fidx = 0
        /\ visualized_paths = <<>>

\* ------------------------------------------------------------------------
\* visualize_annotations
\* ------------------------------------------------------------------------
\* entry of a call: the try block starts at cv2.imread
Enter(who, image, label, out) ==
    /\ pc' = "imread" /\ caller' = who
    /\ image_path' = image /\ annotations_path' = label /\ output_path' = out
    /\ img' = None /\ pages' = <<>> /\ pg' = 0
    /\ ret' = None /\ exc' = "" /\ raised' = "" /\ wfail' = FALSE

\* leaving the function with a return value, or with an exception
Finish(value, e, leaving) ==
    /\ pc' = "return" /\ ret' = value /\ exc' = e /\ raised' = leaving

Raise(e) ==
    LET h == ExceptClause(e, image_path)
    IN  IF h.propagate THEN Finish(None, e, e) ELSE Finish(Some(h.value), e, "")

ImageArgs == {p \in DOMAIN fs : p.dir = "images" /\ p.ext # "txt"} \cup {Img("a", "gif")}

VisualizeAnnotations ==
    /\ pc \in {"idle", "returned"} /\ fpc \in {"idle", "done"}
    /\ budget > 0
    /\ budget' = budget - 1
    /\ \E image \in ImageArgs, out \in outs :
          Enter("single", image, LabelPath("labels", image), out)
    /\ written' = <<>>
    /\ fpc' = "idle" /\ output_dir' = "" /\ image_files' = <<>> /\ fidx' = 0
    /\ visualized_paths' = <<>>
    /\ UNCHANGED <<envVars, renders, fs>>

\* variant of the image load that draws on top of an output left by an earlier call
Imread_incremental ==
    /\ pc = "imread"
    /\ LET prior  == IF output_path = None
                     THEN VisualizedPath(Get(GlobalOf(settings).output_dir, "visualizations"),
                                         image_path, Get(GlobalOf(settings).output_format, "png"))
                     ELSE output_path[1]
           loaded == IF imread(fs, prior) # None /\ imread(fs, image_path) # None
                     THEN imread(fs, prior) ELSE imread(fs, image_path)
       IN  IF loaded = None
           THEN Raise("ValueError") /\ img' = None
           ELSE img' = loaded /\ pc' = "load" /\ UNCHANGED <<ret, exc, raised>>
    /\ UNCHANGED <<envVars, renders, fs, budget, argVars, pages, pg, wfail, written, folderVars>>

Imread ==
    /\ pc = "imread"
    /\ LET loaded == imread(fs, image_path)
       IN  IF loaded = None
           THEN Raise("ValueError") /\ img' = None
           ELSE img' = loaded /\ pc' = "load" /\ UNCHANGED <<ret, exc, raised>>
    /\ UNCHANGED <<envVars, renders, fs, budget, argVars, pages, pg, wfail, written, folderVars>>

LoadAnnotations ==
    /\ pc = "load"
    /\ LET annotations == json_load(fs, annotations_path)
       IN  IF annotations = None
           THEN Raise("JSONError") /\ UNCHANGED <<pages, pg>>
           ELSE IF NothingToDraw(annotations[1])
           THEN Finish(Some(image_path), "", "") /\ UNCHANGED <<pages, pg>>
           ELSE /\ pages' = Get(FullTextAnnotation(annotations[1]).pages, <<>>)
                /\ pg' = 1
                /\ pc' = IF pages' = <<>> THEN "save" ELSE "page"
                /\ UNCHANGED <<ret, exc, raised>>
    /\ UNCHANGED <<envVars, renders, fs, budget, argVars, img, wfail, written, folderVars>>

\* one _process_*_level call of the page loop, then the next one
\* cv2.polylines asserts 0 <= thickness and raises cv2.error otherwise; the other
\* drawing calls are made with arguments they accept (rectangle -1: filled, putText 1)
CallRaises(o) == o.op = "polylines" /\ o.thickness < 0

\* index of the first drawing call of a sequence that raises, 0 if none does
FirstRaising(ops) ==
    IF \E i \in 1..Len(ops) : CallRaises(ops[i])
    THEN CHOOSE i \in 1..Len(ops) : CallRaises(ops[i]) /\ \A j \in 1..(i - 1) : ~CallRaises(ops[j])
    ELSE 0

\* one _process_*_level call inside the try block: the drawing calls are made on the
\* surface in order; the first that raises ends the level and takes the except clause
ProcessLevel(level, ops) ==
    /\ pc = level
    /\ IF FirstRaising(ops) = 0
       THEN /\ img' = Some([img[1] EXCEPT !.ops = @ \o ops])
            /\ LET next == NextLevel(level)
               IN  IF next # "page" THEN pc' = next /\ pg' = pg
                   ELSE IF pg < Len(pages) THEN pc' = "page" /\ pg' = pg + 1
                   ELSE pc' = "save" /\ pg' = pg
            /\ UNCHANGED <<ret, exc, raised>>
       ELSE /\ img' = Some([img[1] EXCEPT !.ops = @ \o SubSeq(ops, 1, FirstRaising(ops) - 1)])
            /\ Raise("cv2.error")
            /\ pg' = pg
    /\ UNCHANGED <<envVars, renders, fs, budget, argVars, pages, wfail, written, folderVars>>

Blocks == Children(pages[pg].blocks)

ProcessPageLevel ==
    /\ pc = "page"
    /\ ProcessLevel("page", _process_page_level(settings, img[1].shape, pg, pages[pg]))

ProcessBlockLevel ==
    /\ pc = "block"
    /\ ProcessLevel("block", _process_block_level(settings, img[1].shape, pg, Blocks))

ProcessParagraphLevel ==
    /\ pc = "paragraph"
    /\ ProcessLevel("paragraph", _process_paragraph_level(settings, img[1].shape, pg, Blocks))

ProcessWordLevel ==
    /\ pc = "word"
    /\ ProcessLevel("word", _process_word_level(settings, img[1].shape, pg, Blocks))

ProcessCharacterLevel ==
    /\ pc = "character"
    /\ ProcessLevel("character", _process_character_level(settings, img[1].shape, pg, Blocks))

\* cv2.imwrite: writes the file and returns True; at a path that cannot be
\* written it returns False or raises, and writes nothing
imwrite(files, bad, path, surface) ==
    IF path \in bad
    THEN {[result |-> "False", files |-> files], [result |-> "raise", files |-> files]}
    ELSE {[result |-> "True", files |-> (path :> Written(surface)) @@ files]}

\* variant of the save path that writes the rendering over the input image
SavePath_inplace == image_path

\* the path the image is saved to
SavePath ==
    IF output_path = None
    THEN VisualizedPath(Get(GlobalOf(settings).output_dir, "visualizations"), image_path,
                        Get(GlobalOf(settings).output_format, "png"))
    ELSE output_path[1]

Save ==
    /\ pc = "save"
    /\ \E o \in imwrite(fs, unwritable, SavePath, img[1]) :
          /\ fs' = o.files
          /\ wfail' = (o.result # "True")
          /\ written' = IF o.result = "True"
                        THEN Append(written, [src |-> image_path, path |-> SavePath])
                        ELSE written
          /\ IF o.result = "raise" THEN Raise("cv2.error") ELSE Finish(Some(SavePath), "", "")
    /\ renders' = renders \cup {[image |-> fs[image_path], label |-> fs[annotations_path],
                                 ops |-> img[1].ops, raster |-> Written(img[1])]}
    /\ UNCHANGED <<envVars, budget, argVars, img, pages, pg, folderVars>>

ReturnToCaller ==
    /\ pc = "return" /\ caller = "single"
    /\ pc' = "returned"
    /\ UNCHANGED <<envVars, renders, fs, budget, argVars, img, pages, pg, ret, exc, raised, wfail,
                   written, folderVars>>

\* ------------------------------------------------------------------------
\* visualize_folder
\* ------------------------------------------------------------------------
\* the patterns f"*{ext}" and f"*{ext.upper()}" over image_extensions
GlobExtensions == image_extensions \cup {"PNG", "JPG", "JPEG", "GIF", "BMP", "WEBP", "TIFF", "TIF"}

Glob(files, dir) == {p \in DOMAIN files : p.dir = dir /\ p.ext \in GlobExtensions}

\* the orders image_files can have: one pattern after the other, the
\* matches of one pattern in directory order
Orders(S) ==
    {f \in [1..Cardinality(S) -> S] :
        /\ \A i, j \in 1..Cardinality(S) : i # j => f[i] # f[j]
        /\ \A i, j, k \in 1..Cardinality(S) :
              (i < j /\ j < k /\ f[i].ext = f[k].ext) => f[j].ext = f[i].ext}

VisualizeFolder ==
    /\ pc \in {"idle", "returned"} /\ fpc \in {"idle", "done"}
    /\ budget > 0
    /\ budget' = budget - 1
    /\ \E out \in outs :
          output_dir' = IF out = None
                        THEN Get(GlobalOf(settings).output_dir, "visualizations")
                        ELSE out[1].dir
    /\ visualized_paths' = <<>>
    /\ LET found == Glob(fs, "images")
       IN  IF found = {}
           THEN fpc' = "done" /\ image_files' = <<>> /\ fidx' = 0
           ELSE fpc' = "loop" /\ image_files' \in Orders(found) /\ fidx' = 1
    /\ pc' = "idle" /\ caller' = "folder"
    /\ image_path' = NoPath /\ annotations_path' = NoPath /\ output_path' = None
    /\ img' = None /\ pages' = <<>> /\ pg' = 0
    /\ ret' = None /\ exc' = "" /\ raised' = "" /\ wfail' = FALSE
    /\ written' = <<>>
    /\ UNCHANGED <<envVars, renders, fs>>

\* loop body when the label file does not exist: `continue`
FolderSkip ==
    /\ fpc = "loop" /\ pc = "idle" /\ fidx <= Len(image_files)
    /\ LabelPath("labels", image_files[fidx]) \notin DOMAIN fs
    /\ fidx' = fidx + 1
    /\ UNCHANGED <<envVars, renders, fs, budget, pc, argVars, img, pages, pg, ret, exc, raised, wfail,
                   written, fpc, output_dir, image_files, visualized_paths>>

\* loop body when the label file exists: call visualize_annotations
FolderVisualize ==
    /\ fpc = "loop" /\ pc = "idle" /\ fidx <= Len(image_files)
    /\ LabelPath("labels", image_files[fidx]) \in DOMAIN fs
    /\ Enter("folder", image_files[fidx], LabelPath("labels", image_files[fidx]),
             Some(VisualizedPath(output_dir, image_files[fidx],
                                 Get(GlobalOf(settings).output_format, "png"))))
    /\ UNCHANGED <<envVars, renders, fs, budget, written, folderVars>>

\* variant of the append that lists only the images that were rendered
FolderAppend_renderedOnly ==
    /\ pc = "return" /\ caller = "folder"
    /\ pc' = "idle"
    /\ IF raised # ""
       THEN fpc' = "raised" /\ UNCHANGED <<fidx, visualized_paths>>
       ELSE /\ fpc' = fpc /\ fidx' = fidx + 1
            /\ visualized_paths' = IF ret[1] = image_path THEN visualized_paths
                                   ELSE Append(visualized_paths, ret[1])
    /\ UNCHANGED <<envVars, renders, fs, budget, argVars, img, pages, pg, ret, exc, raised, wfail,
                   written, output_dir, image_files>>

\* the call returns into the loop: visualized_paths.append(result_path); an
\* exception leaving the call would leave visualize_folder too
FolderAppend ==
    /\ pc = "return" /\ caller = "folder"
    /\ pc' = "idle"
    /\ IF raised # ""
       THEN fpc' = "raised" /\ UNCHANGED <<fidx, visualized_paths>>
       ELSE fpc' = fpc /\ fidx' = fidx + 1 /\ visualized_paths' = Append(visualized_paths, ret[1])
    /\ UNCHANGED <<envVars, renders, fs, budget, argVars, img, pages, pg, ret, exc, raised, wfail,
                   written, output_dir, image_files>>

FolderReturn ==
    /\ fpc = "loop" /\ pc = "idle" /\ fidx > Len(image_files)
    /\ fpc' = "done"
    /\ UNCHANGED <<envVars, renders, fs, budget, pc, argVars, img, pages, pg, ret, exc, raised, wfail,
                   written, output_dir, image_files, fidx, visualized_paths>>

Next ==
    \/ VisualizeAnnotations
    \/ Imread
    \/ LoadAnnotations
    \/ ProcessPageLevel
    \/ ProcessBlockLevel
    \/ ProcessParagraphLevel
    \/ ProcessWordLevel
    \/ ProcessCharacterLevel
    \/ Save
    \/ ReturnToCaller
    \/ VisualizeFolder
    \/ FolderSkip
    \/ FolderVisualize
    \/ FolderAppend
    \/ FolderReturn

Spec == Init /\ [][Next]_vars

\* ------------------------------------------------------------------------
\* Vocabulary of the properties
\* ------------------------------------------------------------------------
\* the drawing calls made on the surface of the current call, in order
Ops == IF img = None THEN <<>> ELSE img[1].ops

OpSet == {Ops[i] : i \in 1..Len(Ops)}

PagePaths(P) == {<<i>> : i \in 1..Len(P)}

BlockPaths(P) ==
    UNION {{n \o <<k>> : k \in 1..Len(Children(P[n[1]].blocks))} : n \in PagePaths(P)}

BlockAt(P, n) == Children(P[n[1]].blocks)[n[2]]

ParagraphPaths(P) ==
    UNION {{n \o <<k>> : k \in 1..Len(Children(BlockAt(P, n).paragraphs))} : n \in BlockPaths(P)}

ParagraphAt(P, n) == Children(BlockAt(P, n).paragraphs)[n[3]]

WordPaths(P) ==
    UNION {{n \o <<k>> : k \in 1..Len(Children(ParagraphAt(P, n).words))} : n \in ParagraphPaths(P)}

WordAt(P, n) == Children(ParagraphAt(P, n).words)[n[4]]

SymbolPaths(P) ==
    UNION {{n \o <<k>> : k \in 1..Len(Children(WordAt(P, n).symbols))} : n \in WordPaths(P)}

SymbolAt(P, n) == Children(WordAt(P, n).symbols)[n[5]]

\* the node at a path of depth 2..5 and the level it belongs to
NodeAt(P, n) ==
    CASE Len(n) = 2 -> BlockAt(P, n)
      [] Len(n) = 3 -> ParagraphAt(P, n)
      [] Len(n) = 4 -> WordAt(P, n)
      [] Len(n) = 5 -> SymbolAt(P, n)

PolygonPaths(P) == BlockPaths(P) \cup ParagraphPaths(P) \cup WordPaths(P) \cup SymbolPaths(P)

LevelOfPath(n) == Levels[Len(n)]

VertexCount(node) ==
    IF node.boundingBox = None THEN 0
    ELSE Len(Get(node.boundingBox[1].vertices, <<>>))

Confidence(node) == Get(node.confidence, 0)

Threshold == Get(Get(settings.global, EmptyGlobal).confidence_threshold, 50)

DrawFlag(level) == Get(LevelOf(settings, level).draw, FALSE)

DrawTextFlag(level) == Get(LevelOf(settings, level).draw_text, FALSE)

\* the text a word or a character is labelled with
LabelText(P, n) ==
    IF Len(n) = 5 THEN Get(SymbolAt(P, n).text, <<>>)
    ELSE Concat([k \in 1..Len(Children(WordAt(P, n).symbols)) |->
                    Get(Children(WordAt(P, n).symbols)[k].text, <<>>)])

HasBox(n) == \E o \in OpSet : o.node = n /\ o.level = LevelOfPath(n) /\ o.op = "polylines"

HasLabel(n) == \E o \in OpSet : o.node = n /\ o.level = LevelOfPath(n) /\ o.op = "putText"

HasDrawing(n) == \E o \in OpSet : o.node = n /\ o.level = LevelOfPath(n)

\* all pages have been processed and the surface is about to be saved
Rendered == pc = "save"

\* ------------------------------------------------------------------------
\* C1: drawing calls are emitted page by page in list order, within a page in
\* the level order Page, Block, Paragraph, Word, Character, and within a
\* level in nested child order; while a level of a page is being processed
\* nothing of a later level or a later page has been emitted.
\* ------------------------------------------------------------------------
OpKey(o) == <<o.page, LevelRank(o.level)>> \o o.node

LexLeq(a, b) ==
    \/ a = b
    \/ \E k \in 1..Len(a) :
          /\ k <= Len(b)
          /\ \A i \in 1..(k - 1) : a[i] = b[i]
          /\ a[k] < b[k]

C1_DrawOrder ==
    /\ \A i, j \in 1..Len(Ops) : i < j => LexLeq(OpKey(Ops[i]), OpKey(Ops[j]))
    /\ pc \in {"page", "block", "paragraph", "word", "character"} =>
          \A o \in OpSet : o.page < pg \/ (o.page = pg /\ LevelRank(o.level) < LevelRank(pc))

C1_Witness ==
    /\ Rendered
    /\ \A l \in 1..5 : \E o \in OpSet : o.level = Levels[l] /\ o.page = 2
    /\ \A l \in 2..5 : \E o1, o2 \in OpSet :
          o1.level = Levels[l] /\ o2.level = Levels[l] /\ o1.page = 1 /\ o2.page = 1
          /\ o1.node # o2.node

\* ------------------------------------------------------------------------
\* C2: a Word or Character whose confidence (0 when absent) is strictly below
\* the threshold gets no drawing at all, whatever draw and draw_text are; one
\* whose confidence is at or above the threshold is not filtered: with a
\* drawable polygon and the level enabled its box is drawn, and its label
\* when draw_text is on and its text is not empty.
\* ------------------------------------------------------------------------
C2_ConfidenceFilter ==
    /\ \A o \in OpSet :
          o.level \in {"word", "character"} => Confidence(NodeAt(pages, o.node)) >= Threshold
    /\ Rendered =>
          \A n \in WordPaths(pages) \cup SymbolPaths(pages) :
             (/\ Confidence(NodeAt(pages, n)) >= Threshold
              /\ VertexCount(NodeAt(pages, n)) >= 4
              /\ DrawFlag(LevelOfPath(n)))
             => /\ HasBox(n)
                /\ (DrawTextFlag(LevelOfPath(n)) /\ LabelText(pages, n) # <<>>) => HasLabel(n)

C2_Witness ==
    /\ Rendered
    /\ \E n \in WordPaths(pages), m \in WordPaths(pages) :
          /\ NodeAt(pages, n).confidence = None
          /\ VertexCount(NodeAt(pages, n)) >= 4
          /\ DrawFlag("word") /\ DrawTextFlag("word")
          /\ Threshold > 0
          /\ ~HasDrawing(n)
          /\ HasBox(m)

\* ------------------------------------------------------------------------
\* C3: with the level's draw flag on, every Page, and every Block and
\* Paragraph with a drawable polygon, gets its box, and its label when
\* draw_text is on, whatever its confidence and the threshold are.
\* ------------------------------------------------------------------------
C3_StructuralAlwaysDrawn ==
    Rendered =>
       /\ \A n \in PagePaths(pages) :
             DrawFlag("page") => HasBox(n) /\ (DrawTextFlag("page") => HasLabel(n))
       /\ \A n \in BlockPaths(pages) \cup ParagraphPaths(pages) :
             (VertexCount(NodeAt(pages, n)) >= 4 /\ DrawFlag(LevelOfPath(n)))
             => HasBox(n) /\ (DrawTextFlag(LevelOfPath(n)) => HasLabel(n))

C3_Witness ==
    /\ Rendered
    /\ \E n \in ParagraphPaths(pages), b \in BlockPaths(pages) :
          /\ Confidence(NodeAt(pages, n)) < Threshold
          /\ Confidence(NodeAt(pages, b)) < Threshold
          /\ Confidence(pages[1]) < Threshold
          /\ HasBox(n) /\ HasLabel(n) /\ HasBox(b) /\ HasLabel(b)
          /\ HasBox(<<1>>) /\ HasLabel(<<1>>)

\* ------------------------------------------------------------------------
\* C4 as stated: a Block, Paragraph, Word or Character whose polygon has
\* fewer than 4 vertices gets no drawing at all, outline or label.
\* ------------------------------------------------------------------------
C4_NoDrawingUnderFourVertices ==
    \A n \in PolygonPaths(pages) : VertexCount(NodeAt(pages, n)) < 4 => ~HasDrawing(n)

\* C4 amended: such a node never gets an outline, and gets no drawing at all
\* when its polygon is missing or has no vertex; with 1 to 3 vertices its
\* label is still drawn when the level's draw and draw_text are on, its text
\* is not empty and (Word, Character) its confidence passes the threshold.
LabelDue(n) ==
    /\ DrawFlag(LevelOfPath(n)) /\ DrawTextFlag(LevelOfPath(n))
    /\ Len(n) >= 4 => /\ Confidence(NodeAt(pages, n)) >= Threshold
                      /\ LabelText(pages, n) # <<>>

C4_NoOutlineUnderFourVertices ==
    /\ \A n \in PolygonPaths(pages) :
          VertexCount(NodeAt(pages, n)) < 4
          => /\ ~HasBox(n)
             /\ VertexCount(NodeAt(pages, n)) = 0 => ~HasDrawing(n)
    /\ Rendered =>
          \A n \in PolygonPaths(pages) :
             (VertexCount(NodeAt(pages, n)) \in 1..3 /\ LabelDue(n)) => HasLabel(n)

C4_Witness ==
    /\ Rendered
    /\ \E n \in BlockPaths(pages), m \in SymbolPaths(pages) :
          /\ VertexCount(NodeAt(pages, n)) = 3
          /\ HasLabel(n) /\ ~HasBox(n)
          /\ VertexCount(NodeAt(pages, m)) = 4 /\ HasBox(m)

\* ------------------------------------------------------------------------
\* C5: a level whose draw flag is off contributes no drawing, even with
\* draw_text on, and the drawings of the other levels are the same as with
\* that level's draw flag switched the other way.
\* ------------------------------------------------------------------------
OfOtherLevels(ops, level) == SelectSeq(ops, LAMBDA o : o.level # level)

PageRendering(st, shape, i, page) ==
    _process_page_level(st, shape, i, page)
    \o _process_block_level(st, shape, i, Children(page.blocks))
    \o _process_paragraph_level(st, shape, i, Children(page.blocks))
    \o _process_word_level(st, shape, i, Children(page.blocks))
    \o _process_character_level(st, shape, i, Children(page.blocks))

Rendering(st, shape, P) == Concat([i \in 1..Len(P) |-> PageRendering(st, shape, i, P[i])])

FlipDraw(st, level) ==
    [st EXCEPT ![level] = Some([LevelOf(st, level) EXCEPT !.draw = Some(~Get(@, FALSE))])]

C5_LevelsGatedIndependently ==
    Rendered =>
       \A l \in 1..5 :
          /\ ~DrawFlag(Levels[l]) => \A o \in OpSet : o.level # Levels[l]
          /\ OfOtherLevels(Ops, Levels[l])
               = OfOtherLevels(Rendering(FlipDraw(settings, Levels[l]), img[1].shape, pages), Levels[l])

C5_Witness ==
    /\ Rendered
    /\ ~DrawFlag("block") /\ DrawTextFlag("block")
    /\ \A o \in OpSet : o.level # "block"
    /\ \A l \in {"paragraph", "word", "character"} : \E o \in OpSet : o.level = l

\* ------------------------------------------------------------------------
\* Vocabulary of the batch properties
\* ------------------------------------------------------------------------
ImageFiles == {image_files[k] : k \in 1..Len(image_files)}

\* the images of the batch that have a label file of matching stem
Labelled == {i \in ImageFiles : LabelPath("labels", i) \in DOMAIN fs}

LabelParses(label) == label \in DOMAIN fs /\ fs[label].kind = "json" /\ fs[label].ok

LacksContent(doc) ==
    \/ doc.response = None
    \/ doc.response[1].fullTextAnnotation = None
    \/ Get(doc.response[1].fullTextAnnotation[1].pages, <<>>) = <<>>

ImageReadable(i) == i \in DOMAIN fs /\ fs[i].kind = "image" /\ fs[i].ok

\* some drawing call of the render of image i raises
DrawingFails(i) ==
    /\ ImageReadable(i)
    /\ LabelParses(LabelPath("labels", i))
    /\ ~LacksContent(fs[LabelPath("labels", i)].doc[1])
    /\ \E o \in {Rendering(settings, fs[i].shape,
                            FullTextAnnotation(fs[LabelPath("labels", i)].doc[1]).pages[1])} :
          \E k \in 1..Len(o) : o[k].op = "polylines" /\ o[k].thickness < 0

\* image readable, label parseable and with annotation content, every drawing call accepted
Renderable(i) ==
    /\ ImageReadable(i)
    /\ LabelParses(LabelPath("labels", i))
    /\ ~LacksContent(fs[LabelPath("labels", i)].doc[1])
    /\ ~DrawingFails(i)

BatchOutput(i) == VisualizedPath(output_dir, i, Get(Get(settings.global, EmptyGlobal).output_format, "png"))

WrittenSet == {written[k] : k \in 1..Len(written)}

\* ------------------------------------------------------------------------
\* C6 as stated: in a batch whose labelled images are all readable and have
\* annotation content, the number of output files written and the length of
\* the returned list both equal the number of labelled images.  The
\* statement is taken here with every output location writable, so that a
\* violation does not depend on a failing write.
\* ------------------------------------------------------------------------
C6_BatchCountsLabelledImages ==
    (/\ fpc = "done"
     /\ \A i \in Labelled : Renderable(i) /\ BatchOutput(i) \notin unwritable)
    => /\ Len(visualized_paths) = Cardinality(Labelled)
       /\ Cardinality({w.path : w \in WrittenSet}) = Cardinality(Labelled)

\* ------------------------------------------------------------------------
\* C7: a batch never aborts; when it is done every labelled image has been
\* processed, and every labelled image that is itself renderable to a
\* writable output has had its output written, whatever happened to the
\* other images.
\* ------------------------------------------------------------------------
C7_BatchSurvivesFailures ==
    /\ fpc # "raised"
    /\ fpc = "done" =>
          /\ Len(visualized_paths) = Cardinality(Labelled)
          /\ \A i \in Labelled :
                (Renderable(i) /\ BatchOutput(i) \notin unwritable)
                => /\ [src |-> i, path |-> BatchOutput(i)] \in WrittenSet
                   /\ BatchOutput(i) \in DOMAIN fs

C7_Witness ==
    /\ fpc = "done"
    /\ \E j, k \in 1..Len(image_files) :
          /\ j < k
          /\ image_files[j] \in Labelled /\ ~ImageReadable(image_files[j])
          /\ [src |-> image_files[k], path |-> BatchOutput(image_files[k])] \in WrittenSet
    /\ \E i \in Labelled : BatchOutput(i) \in unwritable
    /\ \E i \in Labelled : ~LabelParses(LabelPath("labels", i))

\* ------------------------------------------------------------------------
\* C8 as stated: when the image cannot be loaded, what the caller receives
\* differs from what it receives after a successful render and after a
\* nothing-to-draw call.
\* ------------------------------------------------------------------------
C8_ImageLoadErrorIdentifiable ==
    (pc = "return" /\ exc = "ValueError")
    => ~(raised = "" /\ ret \in {Some(image_path), Some(SavePath)})

\* ------------------------------------------------------------------------
\* C9 as stated: when writing the output fails, the call does not return the
\* output path as if the file had been written.
\* ------------------------------------------------------------------------
C9_WriteFailureSurfaced ==
    (pc = "return" /\ wfail) => (raised # "" \/ ret # Some(SavePath))

\* ------------------------------------------------------------------------
\* C10: when the label has no fullTextAnnotation, or its pages list is absent
\* or empty, the call returns the input image path, draws nothing, writes no
\* file and raises nothing.
\* ------------------------------------------------------------------------
C10_NoContentIsNoOp ==
    (/\ pc = "return"
     /\ LabelParses(annotations_path)
     /\ LacksContent(fs[annotations_path].doc[1]))
    => /\ ret = Some(image_path)
       /\ Ops = <<>>
       /\ raised = ""
       /\ \A w \in WrittenSet : w.src # image_path
       /\ ImageReadable(image_path) => exc = ""

C10_Witness ==
    /\ pc = "return"
    /\ ImageReadable(image_path)
    /\ LabelParses(annotations_path)
    /\ fs[annotations_path].doc[1].response # None
    /\ fs[annotations_path].doc[1].response[1].fullTextAnnotation # None
    /\ fs[annotations_path].doc[1].response[1].fullTextAnnotation[1].pages = Some(<<>>)
    /\ ret = Some(image_path)

\* ------------------------------------------------------------------------
\* C11: when the settings file is missing or cannot be parsed, the settings
\* in effect are the built-in defaults, and every render call, single or
\* batch, proceeds and draws what the defaults prescribe.
\* ------------------------------------------------------------------------
C11_DefaultsOnLoadFailure ==
    settings_file.kind \in {"missing", "unparseable"}
    => /\ settings = _get_default_settings
       /\ raised = "" /\ fpc # "raised"
       /\ Rendered => Ops = Rendering(_get_default_settings, img[1].shape, pages)
       /\ (Rendered /\ output_path = None)
          => SavePath = VisualizedPath("visualizations", image_path, "png")

C11_Witness ==
    /\ settings_file.kind = "unparseable"
    /\ Rendered /\ caller = "folder"
    /\ \E o \in OpSet : o.level = "word"
    /\ ~\E o \in OpSet : o.level = "character"

\* ------------------------------------------------------------------------
\* C12: with a loaded settings document that omits a key (a level record, or
\* draw, draw_text, color, thickness, confidence_threshold, output_dir,
\* output_format), rendering uses the built-in default value of that key, and
\* the document's value for every key present.
\* ------------------------------------------------------------------------
\* the document with every omitted key set to its built-in default
FillRecord(rec, dflt) == [k \in DOMAIN rec |-> IF rec[k] = None THEN dflt[k] ELSE rec[k]]

FillDefaults(st) ==
    [r \in DOMAIN st |->
        Some(FillRecord(Get(st[r], IF r = "global" THEN EmptyGlobal ELSE EmptyLevel),
                        _get_default_settings[r][1]))]

C12_OmittedKeysTakeDefaults ==
    (settings_file.kind = "yaml" /\ Rendered)
    => /\ Ops = Rendering(FillDefaults(settings), img[1].shape, pages)
       /\ output_path = None
          => SavePath = VisualizedPath(GlobalOf(FillDefaults(settings)).output_dir[1], image_path,
                                       GlobalOf(FillDefaults(settings)).output_format[1])

\* ------------------------------------------------------------------------
\* C13: every rendered image of a batch has its own output file
\* <stem>_visualized.<format> under the output directory: distinct rendered
\* images are written to distinct files, none overwrites another's output.
\* ------------------------------------------------------------------------
C13_DistinctOutputsPerImage ==
    (caller = "folder" /\ fpc = "done")
    => /\ \A k \in 1..Len(written) : written[k].path = BatchOutput(written[k].src)
       /\ \A j, k \in 1..Len(written) :
             written[j].src # written[k].src => written[j].path # written[k].path

\* ------------------------------------------------------------------------
\* C14 as stated: after any sequence of calls every input image file has the
\* content it had before the calls.
\* ------------------------------------------------------------------------
C14_InputImagesUnchanged ==
    \A p \in DOMAIN fs0 : fs0[p].kind = "image" => (p \in DOMAIN fs /\ fs[p] = fs0[p])

\* the output path of the current call: the one given, else the derived one
CallOutput ==
    IF output_path = None
    THEN VisualizedPath(Get(GlobalOf(settings).output_dir, "visualizations"), image_path,
                        Get(GlobalOf(settings).output_format, "png"))
    ELSE output_path[1]

\* C14, amended: a step of a call changes no file but the call's output path
\* (the output_path given, else <output_dir>/<stem>_visualized.<format>), and
\* a call whose output path is derived from the stem leaves its own input
\* image as it was.
C14_OnlyOutputPathWritten ==
    [][/\ \A p \in DOMAIN fs : p # CallOutput => (p \in DOMAIN fs' /\ fs'[p] = fs[p])
       /\ (caller = "folder" \/ output_path = None)
          => \A p \in DOMAIN fs : p = image_path => (p \in DOMAIN fs' /\ fs'[p] = fs[p])]_vars

C14_Witness ==
    /\ pc = "return" /\ written # <<>>
    /\ image_path \in DOMAIN fs0 /\ fs[image_path] = fs0[image_path]
    /\ \E p \in DOMAIN fs0 : fs0[p].kind = "image" /\ fs[p] # fs0[p]

\* ------------------------------------------------------------------------
\* C15: rendering is deterministic.  A render of an image and annotations
\* whose contents equal those of an earlier render by the same visualizer
\* makes the same sequence of drawing calls and yields the same raster:
\* nothing an earlier call left behind influences it.
\* ------------------------------------------------------------------------
SameInputs(h) == h.image = fs[image_path] /\ h.label = fs[annotations_path]

C15_Deterministic ==
    Rendered =>
       \A h \in renders : SameInputs(h) => (h.ops = Ops /\ h.raster = Written(img[1]))

C15_Witness ==
    /\ Rendered /\ Ops # <<>> /\ budget = 0 /\ caller = "single"
    /\ \E h \in renders : SameInputs(h) /\ h.ops = Ops

\* ------------------------------------------------------------------------
\* C16: a label of at most 20 characters is rendered as it is; a longer one
\* is rendered as its first 17 characters followed by the three-character
\* ellipsis marker, 20 characters in all.
\* ------------------------------------------------------------------------
\* the text handed to _draw_text for the node of a level
FullLabel(P, level, n) ==
    CASE level = "page"      -> Str_Page \o ConfSuffix(Get(P[n[1]].confidence, 0))
      [] level = "block"     -> Get(BlockAt(P, n).blockType, Str_UNKNOWN)
                                \o ConfSuffix(Confidence(BlockAt(P, n)))
      [] level = "paragraph" -> Str_Para \o ConfSuffix(Confidence(ParagraphAt(P, n)))
      [] OTHER               -> LabelText(P, n)

Labels == {o \in OpSet : o.op = "putText"}

C16_LabelTruncation ==
    Rendered =>
       \A o \in Labels :
          LET full == FullLabel(pages, o.level, o.node)
          IN  /\ Len(full) <= 20 => o.text = full
              /\ Len(full) > 20 => /\ Len(o.text) = 20
                                   /\ SubSeq(o.text, 1, 17) = SubSeq(full, 1, 17)
                                   /\ SubSeq(o.text, 18, 20) = <<".", ".", ".">>

C16_Witness ==
    /\ Rendered
    /\ \E o \in Labels : o.level = "word" /\ Len(FullLabel(pages, o.level, o.node)) = 21
                         /\ Len(o.text) = 20
    /\ \E o \in Labels : o.level = "block" /\ Len(FullLabel(pages, o.level, o.node)) = 24
    /\ \E o \in Labels : o.level = "page" /\ o.text = FullLabel(pages, o.level, o.node)

\* ------------------------------------------------------------------------
\* C17: whatever the anchor, the surface size and the footprint of the text,
\* the position a label is drawn at keeps the text inside the surface:
\* x >= 0, x + text_width <= width, y >= text_height and y <= height.
\* ------------------------------------------------------------------------
LabelX(o) == o.pts[1][1]

LabelY(o) == o.pts[1][2]

C17_LabelInsideSurface ==
    Rendered =>
       \A o \in Labels :
          /\ LabelX(o) >= 0
          /\ LabelX(o) + getTextSize(o.text).width <= img[1].shape.w
          /\ LabelY(o) >= getTextSize(o.text).height
          /\ LabelY(o) <= img[1].shape.h

\* ------------------------------------------------------------------------
\* C18: the position a label is drawn at is the result of four rules applied
\* in this order, each to the values the previous ones left: x < 0 gives
\* x = 0; y < text_height gives y = text_height + 5; x + text_width > width
\* gives x = width - text_width; y > height gives y = height - 5.  An
\* anchor that triggers no rule is kept.
\* ------------------------------------------------------------------------
\* the position handed to _draw_text: (10, 30) for a page, else the first vertex
Anchor(P, level, n) ==
    IF level = "page" THEN <<10, 30>>
    ELSE LET v == NodeAt(P, n).boundingBox[1].vertices[1][1]
         IN  <<Get(v.x, 0), Get(v.y, 0)>>

FourRules(a, tw, th, W, H) ==
    LET x1 == IF a[1] < 0 THEN 0 ELSE a[1]
        y2 == IF a[2] < th THEN th + 5 ELSE a[2]
        x3 == IF x1 + tw > W THEN W - tw ELSE x1
        y4 == IF y2 > H THEN H - 5 ELSE y2
    IN  <<x3, y4>>

TriggersNone(a, tw, th, W, H) == a[1] >= 0 /\ a[2] >= th /\ a[1] + tw <= W /\ a[2] <= H

C18_ClampRulesInOrder ==
    Rendered =>
       \A o \in Labels :
          LET a  == Anchor(pages, o.level, o.node)
              sz == getTextSize(o.text)
          IN  /\ o.pts[1] = FourRules(a, sz.width, sz.height, img[1].shape.w, img[1].shape.h)
              /\ TriggersNone(a, sz.width, sz.height, img[1].shape.w, img[1].shape.h)
                 => o.pts[1] = a

C18_Witness ==
    /\ Rendered /\ img[1].shape = Shape100
    /\ \E o \in Labels :
          /\ o.level = "block" /\ Anchor(pages, o.level, o.node) = <<-5, 2>>
          /\ o.pts[1] = <<100 - getTextSize(o.text).width, 17>>
    /\ \E o \in Labels : o.level = "page" /\ LabelY(o) = 30

\* ------------------------------------------------------------------------
\* C19: a node whose bounding polygon is missing or has fewer than 4
\* vertices does not stop the traversal: what is drawn for its descendants
\* and for every other node is exactly what is drawn when the node has a
\* drawable polygon, and the call completes without error.
\* ------------------------------------------------------------------------
RepBlock(P, n, b) == [P EXCEPT ![n[1]].blocks = Some([@[1] EXCEPT ![n[2]] = b])]

RepParagraph(P, n, x) ==
    RepBlock(P, n, [BlockAt(P, n) EXCEPT !.paragraphs = Some([@[1] EXCEPT ![n[3]] = x])])

RepWord(P, n, x) ==
    RepParagraph(P, n, [ParagraphAt(P, n) EXCEPT !.words = Some([@[1] EXCEPT ![n[4]] = x])])

RepSymbol(P, n, x) ==
    RepWord(P, n, [WordAt(P, n) EXCEPT !.symbols = Some([@[1] EXCEPT ![n[5]] = x])])

\* the tree with the polygon of node n replaced
WithBox(P, n, box) ==
    LET x == [NodeAt(P, n) EXCEPT !.boundingBox = box]
    IN  CASE Len(n) = 2 -> RepBlock(P, n, x)
          [] Len(n) = 3 -> RepParagraph(P, n, x)
          [] Len(n) = 4 -> RepWord(P, n, x)
          [] Len(n) = 5 -> RepSymbol(P, n, x)

\* the drawing calls made for other nodes than n
NotOf(ops, n) == SelectSeq(ops, LAMBDA o : ~(o.node = n /\ o.level = LevelOfPath(n)))

Undrawable(n) == VertexCount(NodeAt(pages, n)) < 4

C19_TraversalPassesUndrawableNodes ==
    /\ Rendered =>
          \A n \in PolygonPaths(pages) :
             Undrawable(n)
             => NotOf(Ops, n)
                = NotOf(Rendering(settings, img[1].shape, WithBox(pages, n, DefaultBox(n))), n)
    /\ (pc = "return" /\ ~wfail /\ \E n \in PolygonPaths(pages) : Undrawable(n)) => exc = ""

C19_Witness ==
    /\ Rendered
    /\ \E n \in BlockPaths(pages) :
          /\ NodeAt(pages, n).boundingBox = None
          /\ \E m \in ParagraphPaths(pages) : SubSeq(m, 1, 2) = n /\ HasBox(m)
          /\ \E m \in SymbolPaths(pages) : SubSeq(m, 1, 2) = n /\ HasBox(m)
          /\ \E m \in BlockPaths(pages) : m[1] = n[1] /\ m[2] > n[2] /\ HasBox(m)

\* ------------------------------------------------------------------------
\* C20: for every drawn Word with draw_text on, the label is the
\* concatenation, in child order, of the text of all its characters (a
\* character without text counts as the empty string, a character is
\* included whatever its confidence), handed to _draw_text at the first
\* vertex of the word's polygon; an empty concatenation gives no label.
\* _draw_text shows the text cut to 20 characters at the position the four
\* rules give for that anchor.
\* ------------------------------------------------------------------------
WordDrawn(n) ==
    /\ DrawFlag("word")
    /\ VertexCount(WordAt(pages, n)) >= 4
    /\ Confidence(WordAt(pages, n)) >= Threshold

CharactersText(word) ==
    LET cs == Children(word.symbols)
        RECURSIVE Join(_)
        Join(k) == IF k > Len(cs) THEN <<>>
                   ELSE (IF cs[k].text = None THEN <<>> ELSE cs[k].text[1]) \o Join(k + 1)
    IN  Join(1)

Shown(text) == IF Len(text) <= 20 THEN text ELSE SubSeq(text, 1, 17) \o <<".", ".", ".">>

LabelsOf(n) == {i \in 1..Len(Ops) : Ops[i].op = "putText" /\ Ops[i].level = "word" /\ Ops[i].node = n}

C20_WordLabelIsConcatenation ==
    Rendered =>
       \A n \in WordPaths(pages) :
          (WordDrawn(n) /\ DrawTextFlag("word"))
          => LET text == CharactersText(WordAt(pages, n))
                 sz   == getTextSize(Shown(text))
             IN  IF text = <<>> THEN LabelsOf(n) = {}
                 ELSE /\ Cardinality(LabelsOf(n)) = 1
                      /\ \A i \in LabelsOf(n) :
                            /\ Ops[i].text = Shown(text)
                            /\ Ops[i].pts[1] = FourRules(Anchor(pages, "word", n), sz.width, sz.height,
                                                         img[1].shape.w, img[1].shape.h)

C20_Witness ==
    /\ Rendered
    /\ \E n \in WordPaths(pages) :
          /\ WordDrawn(n) /\ DrawTextFlag("word")
          /\ \E c \in 1..Len(Children(WordAt(pages, n).symbols)) :
                Children(WordAt(pages, n).symbols)[c].text = None
          /\ \E c \in 1..Len(Children(WordAt(pages, n).symbols)) :
                /\ Confidence(Children(WordAt(pages, n).symbols)[c]) < Threshold
                /\ Get(Children(WordAt(pages, n).symbols)[c].text, <<>>) # <<>>
          /\ \E i \in LabelsOf(n) : Len(Ops[i].text) = 19 /\ Ops[i].pts[1] = <<100, 100>>

\* ------------------------------------------------------------------------
\* C21: no exception leaves visualize_annotations.  Whenever loading the
\* image, reading or parsing the label, drawing or saving raises, the call
\* returns the input image path; visualize_folder appends what the call
\* returned, so its list has one entry per image with a matching label, in
\* order, the image path itself for an image whose render raised.
\* ------------------------------------------------------------------------
\* the images of the batch that have a label, in the order of the loop
LabelledSeq == SelectSeq(image_files, LAMBDA i : LabelPath("labels", i) \in DOMAIN fs)

\* loading the image, parsing the label or drawing raises for image i
CallRaisesFor(i) ==
    \/ ~ImageReadable(i)
    \/ ~LabelParses(LabelPath("labels", i))
    \/ DrawingFails(i)

C21_NoExceptionLeavesTheCall ==
    /\ raised = "" /\ fpc # "raised"
    /\ (pc \in {"return", "returned"} /\ exc # "") => ret = Some(image_path)
    /\ (caller = "folder" /\ fpc \in {"loop", "done"})
       => /\ Len(visualized_paths) <= Len(LabelledSeq)
          /\ \A k \in 1..Len(visualized_paths) :
                /\ visualized_paths[k] \in {LabelledSeq[k], BatchOutput(LabelledSeq[k])}
                /\ CallRaisesFor(LabelledSeq[k]) => visualized_paths[k] = LabelledSeq[k]
    /\ (caller = "folder" /\ fpc = "done") => Len(visualized_paths) = Len(LabelledSeq)

C21_Witness ==
    /\ caller = "folder" /\ fpc = "done"
    /\ Len(visualized_paths) = 2
    /\ DrawingFails(LabelledSeq[1]) /\ visualized_paths[1] = LabelledSeq[1]
    /\ ~CallRaisesFor(LabelledSeq[2]) /\ visualized_paths[2] = BatchOutput(LabelledSeq[2])

\* ------------------------------------------------------------------------
\* C22: character filtering is independent of the parent Word.  With
\* character.draw on, a Character with a bounding box and a confidence at
\* or above the threshold is drawn even when its Word is below the
\* threshold, has no bounding box, or the Word level is off: the drawing
\* calls of the Character level are those made when the Word is drawn.
\* ------------------------------------------------------------------------
\* the word is not drawn: level off, no bounding box, or filtered by confidence
WordNotDrawn(w) ==
    \/ ~DrawFlag("word")
    \/ WordAt(pages, w).boundingBox = None
    \/ Confidence(WordAt(pages, w)) < Threshold

\* the tree in which word w has a polygon and full confidence
WithGoodWord(P, w) ==
    RepWord(P, w, [WordAt(P, w) EXCEPT !.boundingBox = DefaultBox(w), !.confidence = Some(100)])

WordLevelOn(st) == [st EXCEPT !.word = Some([LevelOf(st, "word") EXCEPT !.draw = Some(TRUE)])]

CharacterOps(ops) == SelectSeq(ops, LAMBDA o : o.level = "character")

C22_CharactersIndependentOfWord ==
    Rendered =>
       \A w \in WordPaths(pages) :
          WordNotDrawn(w)
          => /\ CharacterOps(Ops)
                = CharacterOps(Rendering(WordLevelOn(settings), img[1].shape, WithGoodWord(pages, w)))
             /\ \A n \in SymbolPaths(pages) :
                   (/\ SubSeq(n, 1, 4) = w
                    /\ DrawFlag("character")
                    /\ VertexCount(SymbolAt(pages, n)) >= 4
                    /\ Confidence(SymbolAt(pages, n)) >= Threshold)
                   => HasBox(n)

C22_Witness ==
    /\ Rendered /\ DrawFlag("character") /\ ~DrawFlag("word")
    /\ \E w \in WordPaths(pages) :
          /\ Confidence(WordAt(pages, w)) < Threshold
          /\ \E n \in SymbolPaths(pages) : SubSeq(n, 1, 4) = w /\ HasBox(n)
    /\ \E o \in OpSet : o.level = "paragraph"

====
